---------------------------- MODULE Spec2Model ----------------------------
(***************************************************************************)
(* A model of the Noot value runtime, src/clibs/noot.h: the call-stack     *)
(* tracker, panics, noot_call / noot_call_bin_op, the dispatch operators,  *)
(* noot_assert, the string comparison loop and the printer.                *)
(*                                                                         *)
(* Four specifications share the module's variables:                       *)
(*   Spec      - generated code driving noot_call, noot_call_bin_op,       *)
(*               noot_assert and noot_panic over the call-stack tracker;   *)
(*   SpecEq    - noot_eq_impl applied to pairs of values;                  *)
(*   SpecCmp   - the String loop of noot_lt_impl / noot_gt_impl, stepwise; *)
(*   SpecPrint - noot_print, stepwise, with its recursion as a stack.      *)
(***************************************************************************)
EXTENDS Integers, Sequences, FiniteSets, TLC

VARIABLES
    \* ---- the call-stack tracker (noot.h:11-13)
    noot_call_stack,           \* the realloc'ed array; index i of C is i + 1 here
    noot_call_stack_len,
    noot_call_stack_capacity,
    \* ---- the process
    status,                    \* "running" | "terminated" | "trapped" | "corrupt"
    exit_code,                 \* -1 while the process has not exited
    out,                       \* what was written to stdout, in order
    frames,                    \* the active noot_call / noot_call_bin_op activations
    last,                      \* the last primitive that ran and the Value it returned
    \* ---- noot_eq_impl on a pair (SpecEq)
    eqA, eqB, eqPc, eqRes,
    \* ---- the String loop of noot_lt_impl / noot_gt_impl (SpecCmp)
    cmpOp, cmpA, cmpB, cmpI, cmpPc, cmpRes, cmpReads,
    \* ---- noot_print (SpecPrint)
    prVal, prStack, prOut, prPc

callVars  == <<noot_call_stack, noot_call_stack_len, noot_call_stack_capacity,
               status, exit_code, out, frames, last>>
eqVars    == <<eqA, eqB, eqPc, eqRes>>
cmpVars   == <<cmpOp, cmpA, cmpB, cmpI, cmpPc, cmpRes, cmpReads>>
printVars == <<prVal, prStack, prOut, prPc>>
vars      == <<callVars, eqVars, cmpVars, printVars>>

\* ------------------------------------------------------------------ bounds
\* The deepest nesting of noot_call / noot_call_bin_op activations explored.
MaxDepth == 3
\* The longest String compared in SpecCmp.
MaxStrLen == 2
\* How many bytes past the end of a String buffer the comparison loop is followed.
MaxOverrun == 2
\* How many noot_print activations deep the printer is followed.
MaxPrintDepth == 4

\* ------------------------------------------------------------------ values
\* A NootValue (noot.h:116-119): the discriminant and the union's payload.
\*   n, d  - Bool: n is 0/1; Int: n; Real: the rational n/d (d = 0: n = 1 is +inf,
\*           n = -1 is -inf, n = 0 is NaN); Function: n is the callable's address;
\*           Closure: n is the callable's address, d the captures' address
\*   s     - String: the bytes (the length is Len(s))
\*   kids  - List: <<head, tail>>; Tree: <<data, left, right>>; Error: <<inner>>;
\*           a pointer is modelled by the value it points to, NULL by NullPtr
NootValue(type, n, d, s, kids) ==
    [type |-> type, n |-> n, d |-> d, s |-> s, kids |-> kids]

NullPtr == NootValue("NULL", 0, 1, <<>>, <<>>)

NOOT_NIL == NootValue("Nil", 0, 1, <<>>, <<>>)
new_bool(b) == NootValue("Bool", IF b THEN 1 ELSE 0, 1, <<>>, <<>>)
NOOT_TRUE == new_bool(TRUE)
NOOT_FALSE == new_bool(FALSE)
new_int(i) == NootValue("Int", i, 1, <<>>, <<>>)
new_real(q) == NootValue("Real", q[1], q[2], <<>>, <<>>)
new_string(s) == NootValue("String", 0, 1, s, <<>>)
new_function(f) == NootValue("Function", f, 1, <<>>, <<>>)
new_closure(f, caps) == NootValue("Closure", f, caps, <<>>, <<>>)
new_list(head, tail) == NootValue("List", 0, 1, <<>>, <<head, tail>>)
new_tree(data, left, right) == NootValue("Tree", 0, 1, <<>>, <<data, left, right>>)
noot_error(inner) == NootValue("Error", 0, 1, <<>>, <<inner>>)

NootType ==
    {"Nil", "Bool", "Int", "Real", "String", "List", "Tree", "Function", "Closure", "Error"}

noot_type_names(t) ==
    CASE t = "Nil" -> "nil"
      [] t = "Bool" -> "bool"
      [] t = "Int" -> "int"
      [] t = "Real" -> "real"
      [] t = "String" -> "string"
      [] t = "List" -> "list"
      [] t = "Tree" -> "tree"
      [] t = "Function" -> "function"
      [] t = "Closure" -> "function"
      [] t = "Error" -> "error"

\* ------------------------------------------------------------------ output
\* One item written to stdout: a line of text (the pieces concatenated), or the
\* rendering of a value by noot_println.
TextLine(pieces) == [k |-> "text", text |-> pieces, v |-> NOOT_NIL]
PrintedLine(v) == [k |-> "println", text |-> <<>>, v |-> v]
AtLine(call_string) == TextLine(<<"at ", call_string>>)

\* sprintf(str, message, ...): the k-th "%s" of the template becomes the k-th argument.
RECURSIVE sprintf(_, _)
sprintf(message, args) ==
    IF message = <<>> THEN <<>>
    ELSE IF Head(message) = "%s" /\ args # <<>>
         THEN <<Head(args)>> \o sprintf(Tail(message), Tail(args))
         ELSE <<Head(message)>> \o sprintf(Tail(message), args)

\* ------------------------------------------------------- call-stack tracker
\* Memory realloc hands out but nothing has written yet.
Uninit == "?"

realloc(stack, capacity) ==
    [i \in 1..capacity |-> IF i <= Len(stack) THEN stack[i] ELSE Uninit]

\* noot_push_call_stack growing the array by one entry instead of doubling it.
noot_push_call_stack_grow_by_one(stack, len, capacity, call_string) ==
    LET new_len == len + 1
        grow == new_len >= capacity
        cap2 == IF grow THEN capacity + 1 ELSE capacity
        arr == IF grow THEN realloc(stack, cap2) ELSE stack
        inside == len + 1 \in 1..Len(arr)
    IN [stack |-> IF inside THEN [arr EXCEPT ![len + 1] = call_string] ELSE arr,
        len |-> new_len,
        capacity |-> cap2,
        overflow |-> ~inside]

\* noot_push_call_stack on the tracker (stack, len, capacity): the tracker after
\* it; overflow says the store went past the allocation.
noot_push_call_stack(stack, len, capacity, call_string) ==
    LET new_len == len + 1
        grow == new_len >= capacity
        cap2 == IF grow THEN (IF capacity = 0 THEN 1 ELSE capacity * 2) ELSE capacity
        arr == IF grow THEN realloc(stack, cap2) ELSE stack
        inside == len + 1 \in 1..Len(arr)
    IN [stack |-> IF inside THEN [arr EXCEPT ![len + 1] = call_string] ELSE arr,
        len |-> new_len,
        capacity |-> cap2,
        overflow |-> ~inside]

\* noot_pop_call_stack leaving the length as it is.
noot_pop_call_stack_no_decrement(len) == len

\* noot_pop_call_stack. len is a size_t: 0 - 1 is SIZE_MAX, written -1 here.
noot_pop_call_stack(len) == len - 1

\* noot_panic_impl walking the tracker from the first entry pushed to the last.
noot_panic_impl_oldest_first(message, stack, len) ==
    <<TextLine(message)>> \o
    [j \in 1..(IF len > 0 THEN len ELSE 0) |-> AtLine(stack[j])]

\* noot_panic_impl: the message, then the tracker from the last entry pushed to
\* the first, one line each.
noot_panic_impl(message, stack, len) ==
    <<TextLine(message)>> \o
    [j \in 1..(IF len > 0 THEN len ELSE 0) |-> AtLine(stack[len - j + 1])]

\* noot_binary_type_panic handing sprintf the right discriminant's name first.
noot_binary_type_panic_swapped(message, a, b, stack, len) ==
    noot_panic_impl(sprintf(message, <<noot_type_names(b), noot_type_names(a)>>),
                    stack, len)

noot_binary_type_panic(message, a, b, stack, len) ==
    noot_panic_impl(sprintf(message, <<noot_type_names(a), noot_type_names(b)>>),
                    stack, len)

noot_unary_type_panic(message, ty, stack, len) ==
    noot_panic_impl(sprintf(message, <<noot_type_names(ty)>>), stack, len)


\* ------------------------------------------------------------------ numbers
Abs(x) == IF x < 0 THEN -x ELSE x
Sign(x) == IF x < 0 THEN -1 ELSE IF x > 0 THEN 1 ELSE 0

RECURSIVE GCD(_, _)
GCD(x, y) == IF y = 0 THEN x ELSE GCD(y, x % y)

\* C's integer division and remainder truncate towards zero (q # 0).
TruncDiv(p, q) == Sign(p) * Sign(q) * (Abs(p) \div Abs(q))
TruncRem(p, q) == p - q * TruncDiv(p, q)

\* A double is modelled by the rational <<n, d>> it holds, in lowest terms with
\* d > 0, or by <<1, 0>> (+inf), <<-1, 0>> (-inf), <<0, 0>> (NaN). The sign of a
\* zero is not modelled.
NaN == <<0, 0>>
IsNaN(x) == x[1] = 0 /\ x[2] = 0
IsInf(x) == x[1] # 0 /\ x[2] = 0
Norm(n, d) ==
    IF d = 0 THEN <<Sign(n), 0>>
    ELSE LET g == GCD(Abs(n), Abs(d))
         IN <<Sign(d) * (n \div g), Abs(d) \div g>>

\* The double held by an Int payload (the usual promotion) or a Real payload.
Dbl(v) == <<v.n, v.d>>

RAdd(x, y) ==
    IF IsNaN(x) \/ IsNaN(y) THEN NaN
    ELSE IF IsInf(x) /\ IsInf(y) THEN (IF x = y THEN x ELSE NaN)
    ELSE IF IsInf(x) THEN x
    ELSE IF IsInf(y) THEN y
    ELSE Norm(x[1] * y[2] + y[1] * x[2], x[2] * y[2])
RNeg(x) == <<-x[1], x[2]>>
RSub(x, y) == RAdd(x, RNeg(y))
RMul(x, y) ==
    IF IsNaN(x) \/ IsNaN(y) THEN NaN
    ELSE IF IsInf(x) \/ IsInf(y)
         THEN (IF x[1] = 0 \/ y[1] = 0 THEN NaN ELSE <<Sign(x[1]) * Sign(y[1]), 0>>)
    ELSE Norm(x[1] * y[1], x[2] * y[2])
RDiv(x, y) ==
    IF IsNaN(x) \/ IsNaN(y) THEN NaN
    ELSE IF IsInf(x) THEN (IF IsInf(y) THEN NaN
                           ELSE <<x[1] * (IF y[1] < 0 THEN -1 ELSE 1), 0>>)
    ELSE IF IsInf(y) THEN <<0, 1>>
    ELSE IF y[1] = 0 THEN (IF x[1] = 0 THEN NaN ELSE <<Sign(x[1]), 0>>)
    ELSE Norm(x[1] * y[2], x[2] * y[1])
\* fmod: x - trunc(x / y) * y
fmod(x, y) ==
    IF IsNaN(x) \/ IsNaN(y) \/ IsInf(x) \/ y[1] = 0 THEN NaN
    ELSE IF IsInf(y) THEN x
    ELSE LET q == TruncDiv(x[1] * y[2], x[2] * y[1])
         IN Norm(x[1] * y[2] - q * y[1] * x[2], x[2] * y[2])
\* ==, < and > on doubles: every comparison with a NaN is false.
REq(x, y) ==
    /\ ~IsNaN(x) /\ ~IsNaN(y)
    /\ IF x[2] = 0 \/ y[2] = 0 THEN x = y ELSE x[1] * y[2] = y[1] * x[2]
RLt(x, y) ==
    /\ ~IsNaN(x) /\ ~IsNaN(y)
    /\ IF x[2] = 0 /\ y[2] = 0 THEN x[1] < y[1]
       ELSE IF x[2] = 0 THEN x[1] < 0
       ELSE IF y[2] = 0 THEN y[1] > 0
       ELSE x[1] * y[2] < y[1] * x[2]
RGt(x, y) == RLt(y, x)

\* --------------------------------------------------------- dispatch operators
\* What a call of an operator can do: return a Value, raise the fatal type error
\* (noot_binary_type_panic with this message and these discriminants), or be
\* killed by the host (a trap: integer division by zero, a wild read).
Ret(v) == [k |-> "ret", v |-> v, msg |-> <<>>, ta |-> "Nil", tb |-> "Nil"]
TypePanic(message, ta, tb) ==
    [k |-> "panic", v |-> NOOT_NIL, msg |-> message, ta |-> ta, tb |-> tb]
Trap == [k |-> "trap", v |-> NOOT_NIL, msg |-> <<>>, ta |-> "Nil", tb |-> "Nil"]

\* The results a build can give for an integer division the C standard leaves
\* undefined: the host's trap (x86), or some Int.
UndefinedInt == {0, -1}
UndefinedDivision == {Trap} \cup {Ret(new_int(x)) : x \in UndefinedInt}

Numeric == {"Int", "Real"}

\* The five arithmetic operators. Each is a switch on a.type whose Int case,
\* when b is neither Int nor Real, falls through the Real case to the panic.
noot_add(a, b) ==
    IF a.type = "Int" /\ b.type = "Int" THEN {Ret(new_int(a.n + b.n))}
    ELSE IF a.type = "Int" /\ b.type = "Real" THEN {Ret(new_real(RAdd(Dbl(a), Dbl(b))))}
    ELSE IF a.type \in Numeric /\ b.type = "Int" THEN {Ret(new_real(RAdd(Dbl(a), Dbl(b))))}
    ELSE IF a.type \in Numeric /\ b.type = "Real" THEN {Ret(new_real(RAdd(Dbl(a), Dbl(b))))}
    ELSE {TypePanic(<<"Attempted to add incompatible types ", "%s", " and ", "%s">>,
                    a.type, b.type)}

noot_sub(a, b) ==
    IF a.type = "Int" /\ b.type = "Int" THEN {Ret(new_int(a.n - b.n))}
    ELSE IF a.type = "Int" /\ b.type = "Real" THEN {Ret(new_real(RSub(Dbl(a), Dbl(b))))}
    ELSE IF a.type \in Numeric /\ b.type = "Int" THEN {Ret(new_real(RSub(Dbl(a), Dbl(b))))}
    ELSE IF a.type \in Numeric /\ b.type = "Real" THEN {Ret(new_real(RSub(Dbl(a), Dbl(b))))}
    ELSE {TypePanic(<<"Attempted to subtract incompatible types ", "%s", " and ", "%s">>,
                    a.type, b.type)}

noot_mul(a, b) ==
    IF a.type = "Int" /\ b.type = "Int" THEN {Ret(new_int(a.n * b.n))}
    ELSE IF a.type = "Int" /\ b.type = "Real" THEN {Ret(new_real(RMul(Dbl(a), Dbl(b))))}
    ELSE IF a.type \in Numeric /\ b.type = "Int" THEN {Ret(new_real(RMul(Dbl(a), Dbl(b))))}
    ELSE IF a.type \in Numeric /\ b.type = "Real" THEN {Ret(new_real(RMul(Dbl(a), Dbl(b))))}
    ELSE {TypePanic(<<"Attempted to subtract multiply types ", "%s", " and ", "%s">>,
                    a.type, b.type)}

noot_div(a, b) ==
    IF a.type = "Int" /\ b.type = "Int"
    THEN (IF b.n = 0 THEN UndefinedDivision ELSE {Ret(new_int(TruncDiv(a.n, b.n)))})
    ELSE IF a.type = "Int" /\ b.type = "Real" THEN {Ret(new_real(RDiv(Dbl(a), Dbl(b))))}
    ELSE IF a.type \in Numeric /\ b.type = "Int" THEN {Ret(new_real(RDiv(Dbl(a), Dbl(b))))}
    ELSE IF a.type \in Numeric /\ b.type = "Real" THEN {Ret(new_real(RDiv(Dbl(a), Dbl(b))))}
    ELSE {TypePanic(<<"Attempted to divide incompatible types ", "%s", " and ", "%s">>,
                    a.type, b.type)}

noot_rem(a, b) ==
    IF a.type = "Int" /\ b.type = "Int"
    THEN (IF b.n = 0 THEN UndefinedDivision ELSE {Ret(new_int(TruncRem(a.n, b.n)))})
    ELSE IF a.type = "Int" /\ b.type = "Real" THEN {Ret(new_real(fmod(Dbl(a), Dbl(b))))}
    ELSE IF a.type \in Numeric /\ b.type = "Int" THEN {Ret(new_real(fmod(Dbl(a), Dbl(b))))}
    ELSE IF a.type \in Numeric /\ b.type = "Real" THEN {Ret(new_real(fmod(Dbl(a), Dbl(b))))}
    ELSE {TypePanic(<<"Attempted to divide incompatible types ", "%s", " and ", "%s">>,
                    a.type, b.type)}


\* ----------------------------------------------------- equality and ordering
\* noot_eq_impl: the results a call can give. The switch has no case for List
\* and Tree and nothing follows it, so for those control reaches the end of a
\* bool function with no return: the caller reads whatever the build left.
RECURSIVE noot_eq_impl(_, _)
noot_eq_impl(a, b) ==
    CASE a.type = "Nil" -> {b.type = "Nil"}
      [] a.type = "Bool" -> {b.type = "Bool" /\ a.n = b.n}
      [] a.type = "Int" ->
            (IF b.type = "Int" THEN {a.n = b.n}
             ELSE IF b.type = "Real" THEN {REq(Dbl(a), Dbl(b))}
             ELSE {FALSE})
      [] a.type = "Real" ->
            (IF b.type = "Int" THEN {REq(Dbl(a), Dbl(b))}
             ELSE IF b.type = "Real" THEN {REq(Dbl(a), Dbl(b))}
             ELSE {FALSE})
      [] a.type = "String" ->
            (IF b.type = "String" /\ Len(a.s) = Len(b.s)
             THEN {\A i \in 0..(Len(a.s) - 1) : a.s[i + 1] = b.s[i + 1]}
             ELSE {FALSE})
      [] a.type = "Function" -> {b.type = "Function" /\ a.n = b.n}
      [] a.type = "Closure" -> {b.type = "Closure" /\ a.n = b.n}
      [] a.type = "Error" ->
            (IF b.type = "Error" THEN noot_eq_impl(a.kids[1], b.kids[1]) ELSE {FALSE})
      [] OTHER -> BOOLEAN

\* What noot_lt_impl / noot_gt_impl can do: return a bool, raise the fatal type
\* error, or be killed on a wild read.
CRet(x) == [k |-> "ret", b |-> x]
CPanic == [k |-> "panic", b |-> FALSE]
CTrap == [k |-> "trap", b |-> FALSE]

\* The loop condition `i < min(a.data.String.len, b.data.String.len)` as the
\* preprocessor leaves it, the macro being `a < b ? a : b` with no parentheses:
\* `i < alen < blen ? alen : blen`, that is ((i < alen) < blen) ? alen : blen.
\* The loop goes on while the value is not 0.
min_expanded(i, alen, blen) ==
    LET c == IF i < alen THEN 1 ELSE 0
    IN IF c < blen THEN alen ELSE blen

\* The String loop of noot_lt_impl (greater = FALSE) and noot_gt_impl (greater =
\* TRUE) from index i. A read at or past a buffer's length is outside the String:
\* the bytes found there, and whether the read faults, are the host's.
RECURSIVE string_loop(_, _, _, _)
string_loop(as, bs, i, greater) ==
    IF min_expanded(i, Len(as), Len(bs)) = 0
    THEN {CRet(IF greater THEN Len(as) > Len(bs) ELSE Len(as) < Len(bs))}
    ELSE IF i < Len(as) /\ i < Len(bs)
    THEN (IF as[i + 1] # bs[i + 1]
          THEN {CRet(IF greater THEN as[i + 1] > bs[i + 1] ELSE as[i + 1] < bs[i + 1])}
          ELSE string_loop(as, bs, i + 1, greater))
    ELSE {CRet(TRUE), CRet(FALSE), CTrap}

noot_lt_impl(a, b) ==
    CASE a.type = "Bool" /\ b.type = "Bool" -> {CRet(a.n < b.n)}
      [] a.type = "Int" /\ b.type = "Int" -> {CRet(a.n < b.n)}
      [] a.type = "Int" /\ b.type = "Real" -> {CRet(RLt(Dbl(a), Dbl(b)))}
      [] a.type = "Real" /\ b.type = "Int" -> {CRet(RLt(Dbl(a), Dbl(b)))}
      [] a.type = "Real" /\ b.type = "Real" -> {CRet(RLt(Dbl(a), Dbl(b)))}
      [] a.type = "String" /\ b.type = "String" -> string_loop(a.s, b.s, 0, FALSE)
      [] a.type = "Function" /\ b.type = "Function" -> {CRet(a.n < b.n)}
      [] a.type = "Closure" /\ b.type = "Closure" -> {CRet(a.n < b.n)}
      [] a.type = "Error" /\ b.type = "Error" ->
            {CRet(e) : e \in noot_eq_impl(a.kids[1], b.kids[1])}
      [] OTHER -> {CPanic}

noot_gt_impl(a, b) ==
    CASE a.type = "Bool" /\ b.type = "Bool" -> {CRet(a.n > b.n)}
      [] a.type = "Int" /\ b.type = "Int" -> {CRet(a.n > b.n)}
      [] a.type = "Int" /\ b.type = "Real" -> {CRet(RGt(Dbl(a), Dbl(b)))}
      [] a.type = "Real" /\ b.type = "Int" -> {CRet(RGt(Dbl(a), Dbl(b)))}
      [] a.type = "Real" /\ b.type = "Real" -> {CRet(RGt(Dbl(a), Dbl(b)))}
      [] a.type = "String" /\ b.type = "String" -> string_loop(a.s, b.s, 0, TRUE)
      [] a.type = "Function" /\ b.type = "Function" -> {CRet(a.n > b.n)}
      [] a.type = "Closure" /\ b.type = "Closure" -> {CRet(a.n > b.n)}
      [] a.type = "Error" /\ b.type = "Error" ->
            {CRet(e) : e \in noot_eq_impl(a.kids[1], b.kids[1])}
      [] OTHER -> {CPanic}

CompareMessage == <<"Attempted to compare incompatible types ", "%s", " and ", "%s">>

\* The operator's outcome for one outcome c of the _impl it calls first; orEq is
\* the `|| noot_eq_impl(a, b)` of noot_le and noot_ge.
Compared(c, a, b, orEq) ==
    CASE c.k = "panic" -> {TypePanic(CompareMessage, a.type, b.type)}
      [] c.k = "trap" -> {Trap}
      [] c.k = "ret" /\ (c.b \/ ~orEq) -> {Ret(new_bool(c.b))}
      [] OTHER -> {Ret(new_bool(e)) : e \in noot_eq_impl(a, b)}

noot_eq(a, b) == {Ret(new_bool(e)) : e \in noot_eq_impl(a, b)}
noot_neq(a, b) == {Ret(new_bool(~e)) : e \in noot_eq_impl(a, b)}
noot_lt(a, b) == UNION {Compared(c, a, b, FALSE) : c \in noot_lt_impl(a, b)}
noot_le(a, b) == UNION {Compared(c, a, b, TRUE) : c \in noot_lt_impl(a, b)}
noot_gt(a, b) == UNION {Compared(c, a, b, FALSE) : c \in noot_gt_impl(a, b)}
noot_ge(a, b) == UNION {Compared(c, a, b, TRUE) : c \in noot_gt_impl(a, b)}

Arithmetic == {"noot_add", "noot_sub", "noot_mul", "noot_div", "noot_rem"}
Ordering == {"noot_lt", "noot_le", "noot_gt", "noot_ge"}
BinOps == Arithmetic \cup Ordering \cup {"noot_eq", "noot_neq"}

\* f(a, b) for the operator f handed to noot_call_bin_op.
ApplyBinOp(f, a, b) ==
    CASE f = "noot_add" -> noot_add(a, b)
      [] f = "noot_sub" -> noot_sub(a, b)
      [] f = "noot_mul" -> noot_mul(a, b)
      [] f = "noot_div" -> noot_div(a, b)
      [] f = "noot_rem" -> noot_rem(a, b)
      [] f = "noot_eq" -> noot_eq(a, b)
      [] f = "noot_neq" -> noot_neq(a, b)
      [] f = "noot_lt" -> noot_lt(a, b)
      [] f = "noot_le" -> noot_le(a, b)
      [] f = "noot_gt" -> noot_gt(a, b)
      [] f = "noot_ge" -> noot_ge(a, b)

\* ------------------------------------------------------------ truthiness
B01(c) == IF c THEN 1 ELSE 0

\* noot_is_true without the `val.type != Error` test.
noot_is_true_error_truthy(val) ==
    B01(val.type = "Bool") * val.n
    + B01(val.type # "Bool") * B01(val.type # "Nil") # 0

\* (val.type == Bool) * val.data.Bool + (val.type != Bool) * (...): for a value
\* that is no Bool the payload read as a bool is multiplied by 0.
noot_is_true(val) ==
    B01(val.type = "Bool") * val.n
    + B01(val.type # "Bool") * B01(val.type # "Nil" /\ val.type # "Error") # 0

\* count >= 1 ? args[0] : NOOT_NIL
FirstArg(count, args) == IF count >= 1 THEN args[1] ELSE NOOT_NIL

\* noot_panic(count, args) up to its call of noot_panic_impl: the banner and
\* noot_println of the first argument.
noot_panic(count, args) ==
    <<TextLine(<<>>), TextLine(<<"Noot panicked:">>), PrintedLine(FirstArg(count, args))>>

\* noot_assert: the Value returned, or the output of the noot_panic it calls
\* (noot_panic(count - 1, args + 1) when count >= 2, else noot_panic(count, args)).
noot_assert(count, args) ==
    LET val == FirstArg(count, args)
    IN IF ~noot_is_true(val)
       THEN [k |-> "panic", v |-> NOOT_NIL,
             lines |-> IF count >= 2 THEN noot_panic(count - 1, Tail(args))
                       ELSE noot_panic(count, args)]
       ELSE [k |-> "ret", v |-> val, lines |-> <<>>]


\* ====================================================================== Spec
\* Generated code driving the runtime. A native callable's body is not part of
\* the runtime: while it runs it may call noot_call, noot_call_bin_op,
\* noot_assert and noot_panic any number of times and then return any Value.

\* The Values handed to the runtime: every discriminant, both Bools, a zero and
\* a non-zero Int.
Values ==
    {NOOT_NIL, NOOT_FALSE, NOOT_TRUE, new_int(0), new_int(3), new_real(<<3, 2>>),
     new_string(<<97>>), new_list(new_int(1), NOOT_NIL),
     new_tree(new_int(5), NullPtr, NullPtr), new_function(1), new_closure(2, 1),
     noot_error(NOOT_NIL)}

CallSites == {"f()", "g()"}
OperatorSites == {"a + b"}

\* exit(1) in noot_panic_impl
PanicExitStatus == 1

\* An activation of noot_call (fn = "noot_call") or of noot_call_bin_op (with
\* its f, a and b). pc: "callee" while the callable or operator runs,
\* "ret" when it has returned res and the pop is next, "panic" when the
\* activation ended in noot_panic_impl. len0 and saved are the tracker's length
\* and entries when the activation began.
Frame(fn, call_site, f, a, b, pc, res, len0, saved) ==
    [fn |-> fn, call_site |-> call_site, f |-> f, a |-> a, b |-> b,
     pc |-> pc, res |-> res, len0 |-> len0, saved |-> saved]

Top == frames[Len(frames)]
Entries == SubSeq(noot_call_stack, 1, noot_call_stack_len)
\* op: the primitive; count: its argument count (noot_assert, noot_panic);
\* callee: the discriminant of the value called (noot_call); res: the Value it
\* returned, when it has returned one.
Did(op, count, callee, res) == [op |-> op, count |-> count, callee |-> callee, res |-> res]

\* Control is in generated code: at top level, or in the body of a callable.
InBody ==
    /\ status = "running"
    /\ frames # <<>> => Top.fn = "noot_call" /\ Top.pc = "callee"

IdleEq == eqA = NOOT_NIL /\ eqB = NOOT_NIL /\ eqPc = "idle" /\ eqRes = FALSE
IdleCmp ==
    /\ cmpOp = "idle" /\ cmpA = <<>> /\ cmpB = <<>> /\ cmpI = 0
    /\ cmpPc = "idle" /\ cmpRes = FALSE /\ cmpReads = {}
IdlePrint ==
    prVal = NOOT_NIL /\ prStack = <<>> /\ prOut = <<>> /\ prPc = "idle"
IdleCall ==
    /\ noot_call_stack = <<>> /\ noot_call_stack_len = 0 /\ noot_call_stack_capacity = 0
    /\ status = "running" /\ exit_code = -1 /\ out = <<>> /\ frames = <<>>
    /\ last = Did("none", 0, "Nil", NOOT_NIL)

Init == IdleCall /\ IdleEq /\ IdleCmp /\ IdlePrint

\* The tracker after noot_push_call_stack(call_site); a store past the
\* allocation corrupts the heap.
Pushed(call_site) ==
    noot_push_call_stack(noot_call_stack, noot_call_stack_len,
                         noot_call_stack_capacity, call_site)

SetTracker(t) ==
    /\ noot_call_stack' = t.stack
    /\ noot_call_stack_len' = t.len
    /\ noot_call_stack_capacity' = t.capacity

\* noot_panic_impl's printing and exit(1).
Terminate(lines) ==
    /\ out' = out \o lines
    /\ status' = "terminated"
    /\ exit_code' = PanicExitStatus

\* noot_call(val, count, args, call_site), up to the dispatch.
NootCall(val, call_site) ==
    /\ InBody
    /\ Len(frames) < MaxDepth
    /\ LET t == Pushed(call_site)
           fr(pc) == Frame("noot_call", call_site, "none", NOOT_NIL, NOOT_NIL,
                           pc, NOOT_NIL, noot_call_stack_len, Entries)
       IN /\ SetTracker(t)
          /\ last' = Did("enter noot_call", 0, val.type, NOOT_NIL)
          /\ IF t.overflow
             THEN /\ status' = "corrupt"
                  /\ frames' = Append(frames, fr("callee"))
                  /\ UNCHANGED <<out, exit_code>>
             ELSE IF val.type \in {"Function", "Closure"}
             THEN /\ frames' = Append(frames, fr("callee"))
                  /\ UNCHANGED <<status, out, exit_code>>
             ELSE /\ frames' = Append(frames, fr("panic"))
                  /\ Terminate(noot_unary_type_panic(
                         <<"Attempted to call ", "%s", " value">>, val.type,
                         t.stack, t.len))
    /\ UNCHANGED <<eqVars, cmpVars, printVars>>

\* The callable returns v: res = (*val.data.Function)(count, args).
CalleeReturn(v) ==
    /\ InBody
    /\ frames # <<>>
    /\ frames' = [frames EXCEPT ![Len(frames)].pc = "ret", ![Len(frames)].res = v]
    /\ last' = Did("callee", 0, "Nil", v)
    /\ UNCHANGED <<noot_call_stack, noot_call_stack_len, noot_call_stack_capacity,
                   status, exit_code, out>>
    /\ UNCHANGED <<eqVars, cmpVars, printVars>>

\* The array with the entries at and above len forgotten. The C array keeps a
\* popped entry until the next push overwrites it; nothing reads the array at or
\* above noot_call_stack_len (noot_panic_impl starts at len - 1), so the model
\* does not tell such leftovers apart.
Forget(stack, len) ==
    [i \in 1..Len(stack) |-> IF i <= len THEN stack[i] ELSE Uninit]

\* noot_pop_call_stack(); return res;  in noot_call and in noot_call_bin_op.
PopAndReturn(fn) ==
    /\ status = "running"
    /\ frames # <<>>
    /\ Top.fn = fn /\ Top.pc = "ret"
    /\ noot_call_stack_len' = noot_pop_call_stack(noot_call_stack_len)
    /\ noot_call_stack' = Forget(noot_call_stack, noot_call_stack_len')
    /\ frames' = SubSeq(frames, 1, Len(frames) - 1)
    /\ last' = Did(fn, 0, "Nil", Top.res)
    /\ UNCHANGED <<noot_call_stack_capacity, status, exit_code, out>>
    /\ UNCHANGED <<eqVars, cmpVars, printVars>>

NootCallReturn == PopAndReturn("noot_call")

\* noot_call_bin_op(f, a, b, call_site), up to the call of f.
BinOpEnter(f, a, b, call_site) ==
    /\ InBody
    /\ Len(frames) < MaxDepth
    /\ LET t == Pushed(call_site)
       IN /\ SetTracker(t)
          /\ status' = IF t.overflow THEN "corrupt" ELSE status
          /\ frames' = Append(frames,
                 Frame("noot_call_bin_op", call_site, f, a, b, "callee",
                       NOOT_NIL, noot_call_stack_len, Entries))
    /\ last' = Did("enter noot_call_bin_op", 0, "Nil", NOOT_NIL)
    /\ UNCHANGED <<exit_code, out>>
    /\ UNCHANGED <<eqVars, cmpVars, printVars>>

\* NootValue res = f(a, b);
BinOpExec ==
    /\ status = "running"
    /\ frames # <<>>
    /\ Top.fn = "noot_call_bin_op" /\ Top.pc = "callee"
    /\ \E o \in ApplyBinOp(Top.f, Top.a, Top.b) :
          CASE o.k = "ret" ->
                 /\ frames' = [frames EXCEPT ![Len(frames)].pc = "ret",
                                             ![Len(frames)].res = o.v]
                 /\ last' = Did(Top.f, 0, "Nil", o.v)
                 /\ UNCHANGED <<status, exit_code, out>>
            [] o.k = "panic" ->
                 /\ frames' = [frames EXCEPT ![Len(frames)].pc = "panic"]
                 /\ last' = Did(Top.f, 0, "Nil", NOOT_NIL)
                 /\ Terminate(noot_binary_type_panic(o.msg, o.ta, o.tb,
                                  noot_call_stack, noot_call_stack_len))
            [] o.k = "trap" ->
                 /\ frames' = [frames EXCEPT ![Len(frames)].pc = "trap"]
                 /\ last' = Did(Top.f, 0, "Nil", NOOT_NIL)
                 /\ status' = "trapped"
                 /\ UNCHANGED <<exit_code, out>>
    /\ UNCHANGED <<noot_call_stack, noot_call_stack_len, noot_call_stack_capacity>>
    /\ UNCHANGED <<eqVars, cmpVars, printVars>>

BinOpReturn == PopAndReturn("noot_call_bin_op")

\* noot_assert(count, args)
NootAssert(args) ==
    /\ InBody
    /\ LET r == noot_assert(Len(args), args)
       IN IF r.k = "ret"
          THEN /\ last' = Did("noot_assert", Len(args), "Nil", r.v)
               /\ UNCHANGED <<status, exit_code, out>>
          ELSE /\ last' = Did("noot_assert", Len(args), "Nil", NOOT_NIL)
               /\ Terminate(r.lines \o noot_panic_impl(<<>>, noot_call_stack,
                                                         noot_call_stack_len))
    /\ UNCHANGED <<noot_call_stack, noot_call_stack_len, noot_call_stack_capacity, frames>>
    /\ UNCHANGED <<eqVars, cmpVars, printVars>>

\* noot_panic(count, args)
NootPanic(args) ==
    /\ InBody
    /\ Terminate(noot_panic(Len(args), args)
                 \o noot_panic_impl(<<>>, noot_call_stack, noot_call_stack_len))
    /\ last' = Did("noot_panic", Len(args), "Nil", NOOT_NIL)
    /\ UNCHANGED <<noot_call_stack, noot_call_stack_len, noot_call_stack_capacity,
                   frames>>
    /\ UNCHANGED <<eqVars, cmpVars, printVars>>

\* The argument lists of noot_assert and noot_panic: count is 0, 1 or 2.
ArgLists == {<<>>} \cup {<<v>> : v \in Values} \cup {<<v, w>> : v, w \in Values}

Next ==
    \/ \E val \in Values, call_site \in CallSites : NootCall(val, call_site)
    \/ \E v \in Values : CalleeReturn(v)
    \/ NootCallReturn
    \/ \E f \in BinOps, a, b \in Values, call_site \in OperatorSites :
          BinOpEnter(f, a, b, call_site)
    \/ BinOpExec
    \/ BinOpReturn
    \/ \E args \in ArgLists : NootAssert(args)
    \/ \E args \in ArgLists : NootPanic(args)

Spec == Init /\ [][Next]_vars


\* ==================================================================== SpecEq
\* noot_eq_impl(a, b) on every pair of EqValues.

\* Values of every discriminant, and Errors wrapping each of them. The Reals are
\* finite.
EqPlain ==
    {NOOT_NIL, NOOT_FALSE, NOOT_TRUE, new_int(0), new_int(3),
     new_real(<<3, 2>>), new_real(<<3, 1>>),
     new_string(<<>>), new_string(<<97>>), new_string(<<97, 98>>),
     new_list(new_int(1), NOOT_NIL), new_list(NullPtr, NullPtr),
     new_tree(new_int(5), NullPtr, NullPtr),
     new_function(1), new_function(2),
     new_closure(1, 1), new_closure(1, 2), new_closure(2, 1)}
EqValues ==
    EqPlain \cup {noot_error(v) : v \in EqPlain} \cup {noot_error(noot_error(NOOT_NIL))}

InitEq ==
    /\ IdleCall /\ IdleCmp /\ IdlePrint
    /\ eqA \in EqValues /\ eqB \in EqValues
    /\ eqPc = "call" /\ eqRes = FALSE

EqCall ==
    /\ eqPc = "call"
    /\ \E r \in noot_eq_impl(eqA, eqB) : eqRes' = r
    /\ eqPc' = "done"
    /\ UNCHANGED <<eqA, eqB, callVars, cmpVars, printVars>>

NextEq == EqCall

SpecEq == InitEq /\ [][NextEq]_vars

\* =================================================================== SpecCmp
\* The String case of noot_lt_impl (cmpOp = "lt") and noot_gt_impl ("gt"), one
\* loop test or one loop body at a time.

\* Bytes are unsigned char; 200 is above 127.
Bytes == {97, 98, 200}
\* What a read outside a String's buffer can find.
WildBytes == {0, 97}

RECURSIVE StringsUpTo(_)
StringsUpTo(n) ==
    IF n = 0 THEN {<<>>}
    ELSE LET shorter == StringsUpTo(n - 1)
         IN shorter \cup {Append(s, c) : s \in {x \in shorter : Len(x) = n - 1}, c \in Bytes}

InitCmp ==
    /\ IdleCall /\ IdleEq /\ IdlePrint
    /\ cmpOp \in {"lt", "gt"}
    /\ cmpA \in StringsUpTo(MaxStrLen) /\ cmpB \in StringsUpTo(MaxStrLen)
    /\ cmpI = 0 /\ cmpPc = "test" /\ cmpRes = FALSE /\ cmpReads = {}

\* `ac < bc` in noot_lt_impl, `ac > bc` in noot_gt_impl; the same for the lengths.
Holds(op, x, y) == IF op = "lt" THEN x < y ELSE x > y

\* for (...; i < min(a.data.String.len, b.data.String.len); ...)
CmpTest ==
    /\ cmpPc = "test"
    /\ IF min_expanded(cmpI, Len(cmpA), Len(cmpB)) = 0
       THEN /\ cmpPc' = "done"
            /\ cmpRes' = Holds(cmpOp, Len(cmpA), Len(cmpB))
       ELSE /\ cmpPc' = "body"
            /\ cmpRes' = cmpRes
    /\ UNCHANGED <<cmpOp, cmpA, cmpB, cmpI, cmpReads, callVars, eqVars, printVars>>

\* The body with bytes ac and bc read: if (ac != bc) return ac < bc;  then i++.
Compare(ac, bc) ==
    /\ cmpReads' = cmpReads \cup {cmpI}
    /\ IF ac # bc
       THEN /\ cmpPc' = "done"
            /\ cmpRes' = Holds(cmpOp, ac, bc)
            /\ cmpI' = cmpI
       ELSE /\ cmpPc' = "test"
            /\ cmpRes' = cmpRes
            /\ cmpI' = cmpI + 1

\* The loop body with index i inside both buffers.
CmpBody ==
    /\ cmpPc = "body"
    /\ cmpI < Len(cmpA) /\ cmpI < Len(cmpB)
    /\ Compare(cmpA[cmpI + 1], cmpB[cmpI + 1])
    /\ UNCHANGED <<cmpOp, cmpA, cmpB, callVars, eqVars, printVars>>

\* The loop body with index i at or past the end of a buffer: that read finds
\* any byte, or faults.
CmpWildBody ==
    /\ cmpPc = "body"
    /\ cmpI >= Len(cmpA) \/ cmpI >= Len(cmpB)
    /\ cmpI < (IF Len(cmpA) < Len(cmpB) THEN Len(cmpA) ELSE Len(cmpB)) + MaxOverrun
    /\ \/ \E ac \in (IF cmpI < Len(cmpA) THEN {cmpA[cmpI + 1]} ELSE WildBytes),
             bc \in (IF cmpI < Len(cmpB) THEN {cmpB[cmpI + 1]} ELSE WildBytes) :
             Compare(ac, bc)
       \/ /\ cmpPc' = "trap"
          /\ cmpReads' = cmpReads \cup {cmpI}
          /\ UNCHANGED <<cmpI, cmpRes>>
    /\ UNCHANGED <<cmpOp, cmpA, cmpB, callVars, eqVars, printVars>>

NextCmp == CmpTest \/ CmpBody \/ CmpWildBody

SpecCmp == InitCmp /\ [][NextCmp]_vars


\* ================================================================= SpecPrint
\* noot_print(1, &prVal), one step at a time. prStack holds the activations of
\* noot_print, the innermost last; prOut the characters written so far.

DigitChar(d) ==
    CASE d = 0 -> "0" [] d = 1 -> "1" [] d = 2 -> "2" [] d = 3 -> "3" [] d = 4 -> "4"
      [] d = 5 -> "5" [] d = 6 -> "6" [] d = 7 -> "7" [] d = 8 -> "8" [] d = 9 -> "9"

RECURSIVE Decimal(_)
Decimal(n) ==
    IF n < 10 THEN <<DigitChar(n)>> ELSE Decimal(n \div 10) \o <<DigitChar(n % 10)>>

\* printf("%d", n)
FormatD(n) == IF n < 0 THEN <<"-">> \o Decimal(-n) ELSE Decimal(n)

\* sprintf(str, "%f", x): the sign, the integer digits, '.', six fractional
\* digits, the value rounded to the nearest millionth.
FormatF(x) ==
    IF IsNaN(x) THEN <<"n", "a", "n">>
    ELSE IF IsInf(x) THEN (IF x[1] < 0 THEN <<"-">> ELSE <<>>) \o <<"i", "n", "f">>
    ELSE LET micro == (2 * Abs(x[1]) * 1000000 + x[2]) \div (2 * x[2])
             frac == micro % 1000000
             six == [k \in 1..6 |-> DigitChar((frac \div (10 ^ (6 - k))) % 10)]
         IN (IF x[1] < 0 THEN <<"-">> ELSE <<>>)
            \o Decimal(micro \div 1000000) \o <<".">> \o six

\* The character a String byte prints as.
Chr(b) == CASE b = 97 -> "a" [] b = 98 -> "b" [] OTHER -> "?"

PFrame(val, pc, curr, printed, str, i) ==
    [val |-> val, pc |-> pc, curr |-> curr, printed |-> printed, str |-> str, i |-> i]
Entered(val) == PFrame(val, "start", NullPtr, FALSE, <<>>, 0)

PTop == prStack[Len(prStack)]
Printing == prPc = "run" /\ prStack # <<>>

\* The activation returns, having written text.
Finish(text) ==
    /\ prOut' = prOut \o text
    /\ prStack' = SubSeq(prStack, 1, Len(prStack) - 1)
    /\ prPc' = IF Len(prStack) = 1 THEN "done" ELSE "run"

\* The activation writes text and goes on as frame.
Goto(text, frame) ==
    /\ prOut' = prOut \o text
    /\ prStack' = [prStack EXCEPT ![Len(prStack)] = frame]
    /\ prPc' = "run"

\* The activation writes text and calls noot_print(1, arg), to go on as frame
\* when that returns. noot_print reads args[0]: with arg NULL the read faults.
Recurse(text, frame, arg) ==
    /\ Len(prStack) < MaxPrintDepth
    /\ prOut' = prOut \o text
    /\ IF arg = NullPtr
       THEN /\ prPc' = "trap"
            /\ prStack' = prStack
       ELSE /\ prPc' = "run"
            /\ prStack' = Append([prStack EXCEPT ![Len(prStack)] = frame], Entered(arg))

At(frame, pc) == [frame EXCEPT !.pc = pc]

\* switch (val.type), up to the first loop or call of the case taken.
PrintStart ==
    /\ Printing
    /\ PTop.pc = "start"
    /\ LET val == PTop.val
       IN CASE val.type = "Nil" -> Finish(<<"n", "i", "l">>)
            [] val.type = "Bool" ->
                 Finish(IF val.n # 0 THEN <<"t", "r", "u", "e">>
                        ELSE <<"f", "a", "l", "s", "e">>)
            [] val.type = "Int" -> Finish(FormatD(val.n))
            [] val.type = "Real" ->
                 LET str == FormatF(Dbl(val))
                     i == Len(str)
                 IN IF i = 0 THEN Finish(<<>>)
                    ELSE Goto(<<>>, [PTop EXCEPT !.pc = "scan", !.str = str, !.i = i - 1])
            [] val.type = "String" -> Finish([k \in 1..Len(val.s) |-> Chr(val.s[k])])
            [] val.type = "List" ->
                 Goto(<<"[">>, [PTop EXCEPT !.pc = "list_test", !.printed = FALSE,
                                            !.curr = val])
            [] val.type = "Tree" -> Goto(<<"{">>, At(PTop, "tree_left"))
            [] val.type \in {"Function", "Closure"} ->
                 Finish(<<"f", "u", "n", "c", "t", "i", "o", "n">>)
            [] val.type = "Error" ->
                 Recurse(<<"E", "r", "r", "o", "r", ":", " ">>, At(PTop, "return"),
                         val.kids[1])
    /\ UNCHANGED <<prVal, callVars, eqVars, cmpVars>>

\* while (str[i] == '0' || str[i] == '.') i--;  then the printf of i + 1
\* characters. str[i] with i below 0 is a read below the buffer: it finds a
\* character that ends the scan, or one that lets it run on outside the buffer.
PrintRealScan ==
    /\ Printing
    /\ PTop.pc = "scan"
    /\ IF PTop.i >= 0
       THEN IF PTop.str[PTop.i + 1] \in {"0", "."}
            THEN Goto(<<>>, [PTop EXCEPT !.i = PTop.i - 1])
            ELSE Finish(SubSeq(PTop.str, 1, PTop.i + 1))
       ELSE \/ Finish(SubSeq(PTop.str, 1, PTop.i + 1))
            \/ /\ prPc' = "wild"
               /\ UNCHANGED <<prStack, prOut>>
    /\ UNCHANGED <<prVal, callVars, eqVars, cmpVars>>

Space(printed) == IF printed THEN <<" ">> ELSE <<>>

\* The List case after printf("["): the loop over the nodes, the tail, "]".
PrintList ==
    /\ Printing
    /\ LET f == PTop
       IN CASE f.pc = "list_test" ->
                 \* while (curr->type == List && curr->data.List.head)
                 IF f.curr = NullPtr
                 THEN /\ prPc' = "trap"
                      /\ UNCHANGED <<prStack, prOut>>
                 ELSE IF f.curr.type = "List" /\ f.curr.kids[1] # NullPtr
                 THEN Recurse(Space(f.printed), At(f, "list_next"), f.curr.kids[1])
                 ELSE Goto(<<>>, At(f, "list_end"))
            [] f.pc = "list_next" ->
                 \* printed = true; curr = curr->data.List.tail;
                 Goto(<<>>, [f EXCEPT !.pc = "list_test", !.printed = TRUE,
                                      !.curr = f.curr.kids[2]])
            [] f.pc = "list_end" ->
                 \* if (curr && curr->type != Nil) { ...; noot_print(1, curr); }
                 IF f.curr # NullPtr /\ f.curr.type # "Nil"
                 THEN Recurse(Space(f.printed), At(f, "list_close"), f.curr)
                 ELSE Finish(<<"]">>)
            [] f.pc = "list_close" -> Finish(<<"]">>)
            [] OTHER -> FALSE
    /\ UNCHANGED <<prVal, callVars, eqVars, cmpVars>>

\* The Tree case after printf("{"). tree = &val.data.Tree is never NULL.
PrintTree ==
    /\ Printing
    /\ LET f == PTop
           data == f.val.kids[1]
           left == f.val.kids[2]
           right == f.val.kids[3]
       IN CASE f.pc = "tree_left" ->
                 IF left # NullPtr THEN Recurse(<<>>, At(f, "tree_data"), left)
                 ELSE Goto(<<"_">>, At(f, "tree_data"))
            [] f.pc = "tree_data" -> Recurse(<<" ">>, At(f, "tree_right"), data)
            [] f.pc = "tree_right" ->
                 IF right # NullPtr THEN Recurse(<<" ">>, At(f, "tree_close"), right)
                 ELSE Goto(<<" ", "_">>, At(f, "tree_close"))
            [] f.pc = "tree_close" -> Finish(<<"}">>)
            [] OTHER -> FALSE
    /\ UNCHANGED <<prVal, callVars, eqVars, cmpVars>>

\* The Error case after its noot_print(1, val.data.Error): break; return.
PrintReturn ==
    /\ Printing
    /\ PTop.pc = "return"
    /\ Finish(<<>>)
    /\ UNCHANGED <<prVal, callVars, eqVars, cmpVars>>

\* The Values printed.
ListOf3(tail) == new_list(new_int(1), new_list(new_int(2), new_list(new_int(3), tail)))
EmptyNode == new_list(NullPtr, NullPtr)
PrintReals ==
    {new_real(<<3, 1>>), new_real(<<157, 50>>), new_real(<<1, 2>>), new_real(<<10, 1>>),
     new_real(<<0, 1>>), new_real(<<401, 4>>), new_real(<<-5, 2>>), new_real(<<120, 1>>),
     new_real(<<1, 1000000>>), new_real(<<-20, 1>>)}
PrintLists ==
    {ListOf3(NOOT_NIL), ListOf3(new_int(4)), ListOf3(EmptyNode),
     EmptyNode, new_list(NullPtr, NOOT_NIL),
     new_list(new_int(1), NOOT_NIL), new_list(NOOT_NIL, new_int(2)),
     new_list(new_list(new_int(1), NOOT_NIL), new_list(new_int(2), NOOT_NIL)),
     new_list(new_int(7), new_list(new_int(-8), NOOT_TRUE))}
PrintOthers ==
    {NOOT_NIL, NOOT_TRUE, NOOT_FALSE, new_int(3), new_int(-12), new_string(<<97, 98>>),
     new_function(1), new_closure(2, 1), noot_error(new_int(3)),
     new_tree(new_int(5), NullPtr, NullPtr),
     new_tree(new_int(2), new_tree(new_int(1), NullPtr, NullPtr), NullPtr),
     new_list(new_real(<<10, 1>>), NOOT_NIL)}
PrintInputs == PrintReals \cup PrintLists \cup PrintOthers

InitPrint ==
    /\ IdleCall /\ IdleEq /\ IdleCmp
    /\ prVal \in PrintInputs
    /\ prStack = <<Entered(prVal)>>
    /\ prOut = <<>>
    /\ prPc = "run"

NextPrint == PrintStart \/ PrintRealScan \/ PrintList \/ PrintTree \/ PrintReturn

SpecPrint == InitPrint /\ [][NextPrint]_vars


\* ==================================================================== claims

\* The lines noot_panic_impl wrote last: with n activations on the stack, the
\* message is n lines before the end of the output.
RunEnded == status = "terminated"
Depth == Len(frames)
MessageLine == out[Len(out) - Depth]
TraceLine(j) == out[Len(out) - Depth + j]
IsAtLine(line) == line.k = "text" /\ line.text # <<>> /\ Head(line.text) = "at "
\* text names x and then y
NamesInOrder(text, x, y) ==
    \E i, j \in 1..Len(text) : i < j /\ text[i] = x /\ text[j] = y

\* What the output and the exit status are once noot_panic_impl has run.
C1_TraceAfterMessage ==
    RunEnded =>
        /\ exit_code # 0 /\ exit_code # -1
        /\ Len(out) >= Depth + 1
        /\ ~IsAtLine(MessageLine)
        /\ \A j \in 1..Depth : TraceLine(j) = AtLine(frames[Depth - j + 1].call_site)
\* C1. When a panic has been triggered while the activations on the stack pushed
\* the labels l1..ln (frames[1] first), the output ends with the message and then
\* exactly the lines "at ln", ..., "at l1"; the process has terminated with a
\* non-zero exit status, and no step is taken from a terminated state.
C1_PanicTraceMostRecentFirst ==
    /\ []C1_TraceAfterMessage
    /\ [][RunEnded => UNCHANGED vars]_vars

\* C1 witness: f() called g(), whose operator raised the type error: the trace is
\* "at a + b", "at g()", "at f()".
C1_Witness ==
    /\ RunEnded
    /\ Depth = 3
    /\ frames[1].call_site = "f()" /\ frames[2].call_site = "g()"
    /\ frames[3].fn = "noot_call_bin_op" /\ frames[3].pc = "panic"
    /\ SubSeq(out, Len(out) - 2, Len(out)) = <<AtLine("a + b"), AtLine("g()"), AtLine("f()")>>

\* The tracker against the activations, and a step that ends an activation.
C2_LabelsInPlace ==
    /\ noot_call_stack_len = Depth
    /\ noot_call_stack_len >= 0
    /\ Depth <= Len(noot_call_stack)
    /\ \A k \in 1..Depth : noot_call_stack[k] = frames[k].call_site
C2_ReturnRestores ==
    Len(frames') < Len(frames) =>
        /\ noot_call_stack_len' = Top.len0
        /\ SubSeq(noot_call_stack', 1, noot_call_stack_len') = Top.saved
        /\ last'.res = last.res
\* C2. At any nesting depth, while an activation of noot_call or
\* noot_call_bin_op lasts its call-site label is the tracker entry at its own
\* depth, which is the top entry whenever control is in its callee or operator
\* (the entries above it belong to the calls nested in it); when the callee or
\* operator returns, the tracker's length and the entries below it are what they
\* were before the call and the value returned is the callee's result; the
\* length never goes below 0.
C2_PushPopPaired ==
    /\ []C2_LabelsInPlace
    /\ [][C2_ReturnRestores]_vars

\* C2 witness: inside the callable called at f(), a nested noot_call has returned
\* the Int 3: the tracker holds f() alone again.
C2_Witness ==
    /\ status = "running"
    /\ Depth = 1 /\ Top.pc = "callee" /\ Top.call_site = "f()"
    /\ last.op = "noot_call" /\ last.res = new_int(3)
    /\ noot_call_stack_len = 1 /\ noot_call_stack[1] = "f()"
    /\ noot_call_stack_capacity = 2

\* An activation of noot_call_bin_op whose operator has run.
Ran(fs) ==
    /\ frames # <<>>
    /\ Top.fn = "noot_call_bin_op" /\ Top.f \in fs
    /\ Top.pc \in {"ret", "panic", "trap"}
BothNumeric == Top.a.type \in Numeric /\ Top.b.type \in Numeric
ArithmeticType == IF Top.a.type = "Int" /\ Top.b.type = "Int" THEN "Int" ELSE "Real"
RaisedTypeError ==
    /\ Top.pc = "panic" /\ RunEnded
    /\ NamesInOrder(MessageLine.text, noot_type_names(Top.a.type),
                    noot_type_names(Top.b.type))

Truthy(v) == (v.type = "Bool" /\ v.n = 1) \/ v.type \notin {"Bool", "Nil", "Error"}

\* What a step of noot_assert on args must do.
C4_AssertStep(args) ==
    LET cond == IF Len(args) >= 1 THEN args[1] ELSE NOOT_NIL
        payload == IF Len(args) >= 2 THEN args[2] ELSE cond
    IN IF Truthy(cond)
       THEN /\ last'.res = cond
            /\ status' = "running"
            /\ UNCHANGED <<out, noot_call_stack, noot_call_stack_len,
                           noot_call_stack_capacity, frames>>
       ELSE /\ status' = "terminated"
            /\ exit_code' # 0
            /\ Len(out') = Len(out) + 4 + Depth
            /\ out'[Len(out) + 3] = PrintedLine(payload)
            /\ \A k \in 1..Len(out') :
                   out'[k].k = "println" => k = Len(out) + 3
            /\ \A j \in 1..Depth :
                   out'[Len(out) + 4 + j] = AtLine(frames[Depth - j + 1].call_site)
\* C4. A step of noot_assert on args: if the first argument is truthy it returns
\* that argument and changes neither the output nor the tracker; otherwise the
\* process panics, printing args[1] when count >= 2 and else the condition (nil
\* when count is 0), then the trace, and terminates.
C4_Assert ==
    [][last'.op = "noot_assert" => \A args \in ArgLists : NootAssert(args) => C4_AssertStep(args)]_vars

\* C4 witness: assert(false, "a") inside a callable has panicked printing "a".
C4_Witness ==
    /\ RunEnded
    /\ last.op = "noot_assert" /\ last.count = 2
    /\ Depth = 1
    /\ Len(out) = 5
    /\ out[3] = PrintedLine(new_string(<<97>>))
    /\ out[5] = AtLine(Top.call_site)

\* C5. eq(a, a) is true for every Value a of every discriminant, and two
\* Closures with the same callable are equal whatever their captures.
C5_EqReflexive ==
    eqPc = "done" =>
        /\ eqA = eqB => eqRes
        /\ (eqA.type = "Closure" /\ eqB.type = "Closure" /\ eqA.n = eqB.n) => eqRes

\* s precedes u byte by byte, a strict prefix first.
MinLen == IF Len(cmpA) < Len(cmpB) THEN Len(cmpA) ELSE Len(cmpB)
RECURSIVE Precedes(_, _)
Precedes(s, u) ==
    IF s = <<>> THEN u # <<>>
    ELSE IF u = <<>> THEN FALSE
    ELSE IF Head(s) # Head(u) THEN Head(s) < Head(u)
    ELSE Precedes(Tail(s), Tail(u))
\* C6. lt(a, b) on Strings is true exactly when a precedes b byte by byte
\* (unsigned), a strict prefix being less; gt is its mirror; the loop reads only
\* indices below min(len(a), len(b)) and ends after at most that many rounds.
C6_StringOrder ==
    /\ cmpPc # "trap"
    /\ \A i \in cmpReads : i < MinLen
    /\ cmpI <= MinLen
    /\ cmpPc = "done" =>
          cmpRes = (IF cmpOp = "lt" THEN Precedes(cmpA, cmpB) ELSE Precedes(cmpB, cmpA))

\* The rendering with the fraction's trailing zeros, and then a trailing point, removed.
RECURSIVE StripZeros(_)
StripZeros(s) ==
    IF s # <<>> /\ s[Len(s)] = "0" THEN StripZeros(SubSeq(s, 1, Len(s) - 1)) ELSE s
Canonical(str) ==
    LET s == StripZeros(str)
    IN IF s # <<>> /\ s[Len(s)] = "." THEN SubSeq(s, 1, Len(s) - 1) ELSE s
\* C7. Printing a Real removes from its fixed-point rendering only the trailing
\* '0's of the fractional part and then a trailing '.': the integer digits stay,
\* the output is not empty and the scan never goes below the first character.
C7_RealPrint ==
    prVal.type = "Real" =>
        /\ prPc # "wild"
        /\ \A k \in 1..Len(prStack) : prStack[k].pc = "scan" => prStack[k].i >= 0
        /\ prPc = "done" => prOut # <<>> /\ prOut = Canonical(FormatF(Dbl(prVal)))

\* The text of a List of Ints, Bools, Nils and Lists as the printer's rules give it.
RECURSIVE Rendering(_)
RECURSIVE Elements(_)
Elements(v) ==
    IF v.type = "List"
    THEN (IF v.kids[1] = NullPtr THEN <<>>
          ELSE <<Rendering(v.kids[1])>> \o Elements(v.kids[2]))
    ELSE IF v.type = "Nil" THEN <<>>
    ELSE <<Rendering(v)>>
RECURSIVE Spaced(_)
Spaced(texts) ==
    IF texts = <<>> THEN <<>>
    ELSE IF Len(texts) = 1 THEN texts[1]
    ELSE texts[1] \o <<" ">> \o Spaced(Tail(texts))
Rendering(v) ==
    CASE v.type = "List" -> <<"[">> \o Spaced(Elements(v)) \o <<"]">>
      [] v.type = "Int" -> FormatD(v.n)
      [] v.type = "Nil" -> <<"n", "i", "l">>
      [] v.type = "Bool" -> (IF v.n = 1 THEN <<"t", "r", "u", "e">>
                             ELSE <<"f", "a", "l", "s", "e">>)
IsPrefix(s, u) == Len(s) <= Len(u) /\ s = SubSeq(u, 1, Len(s))
\* C8. Printing a finite List ends, having written '[', the elements in order
\* with single spaces between them, and ']': a Nil tail or a node with no head
\* ends the list and adds nothing, any other tail is a last element.
C8_ListPrint ==
    prVal \in PrintLists =>
        /\ prPc \in {"run", "done"}
        /\ IsPrefix(prOut, Rendering(prVal))
        /\ prPc = "done" => prOut = Rendering(prVal)

\* C9. For operands of different discriminants, other than an Int with a Real:
\* eq returns false and neq returns true; lt, gt, le and ge raise the fatal type
\* error naming both discriminants.
C9_CrossDiscriminant ==
    (Ran(Ordering \cup {"noot_eq", "noot_neq"}) /\ Top.a.type # Top.b.type /\ ~BothNumeric) =>
        CASE Top.f = "noot_eq" -> Top.pc = "ret" /\ Top.res = NOOT_FALSE
          [] Top.f = "noot_neq" -> Top.pc = "ret" /\ Top.res = NOOT_TRUE
          [] OTHER -> RaisedTypeError

\* The tracker in a state, and across a step.
C10_TrackerShape ==
    /\ status # "corrupt"
    /\ noot_call_stack_len <= noot_call_stack_capacity
    /\ Len(noot_call_stack) = noot_call_stack_capacity
    /\ noot_call_stack_capacity = 0 => noot_call_stack_len = 0 /\ frames = <<>>
C10_TrackerStep ==
    /\ noot_call_stack_capacity' # noot_call_stack_capacity =>
          noot_call_stack_len' = noot_call_stack_len + 1
    /\ \/ noot_call_stack_capacity' = noot_call_stack_capacity
       \/ noot_call_stack_capacity = 0 /\ noot_call_stack_capacity' = 1
       \/ noot_call_stack_capacity > 0
          /\ noot_call_stack_capacity' = 2 * noot_call_stack_capacity
    /\ noot_call_stack_len' < noot_call_stack_len =>
          /\ noot_call_stack_len' = noot_call_stack_len - 1
          /\ noot_call_stack_capacity' = noot_call_stack_capacity
          /\ SubSeq(noot_call_stack', 1, noot_call_stack_len')
                = SubSeq(noot_call_stack, 1, noot_call_stack_len')
    /\ noot_call_stack_len' > noot_call_stack_len =>
          /\ noot_call_stack_len' = noot_call_stack_len + 1
          /\ noot_call_stack_len < noot_call_stack_capacity'
          /\ noot_call_stack'[noot_call_stack_len + 1] = frames'[Len(frames')].call_site
          /\ noot_call_stack_capacity = 0 => noot_call_stack_capacity' = 1
\* C10. The capacity is 0 until the first push, which makes it 1; after that it
\* changes only by doubling; a pop takes 1 from the length and changes nothing
\* else; the length never exceeds the capacity, and a push stores its label at an
\* index below the capacity.
C10_CapacityDoubles ==
    /\ []C10_TrackerShape
    /\ [][C10_TrackerStep]_vars

\* C10 witness: after three nested calls have returned the tracker is empty and
\* its capacity is still 4.
C10_Witness ==
    /\ noot_call_stack_capacity = 4
    /\ noot_call_stack_len = 0
    /\ status = "running"

=============================================================================
